---- MODULE Spec2Model ----
(***************************************************************************)
(* Centaur Parting: the file-set tracker / watcher loop and the report     *)
(* sink it feeds.  The operations of the watcher                           *)
(* (src/monitor/enhanced_watcher.py) follow the component design           *)
(* (spec.md 4.4, 5, 7), what the project documents under src/ say about    *)
(* it (PROJECT_STATUS, QUICK_REFERENCE), and the control surface the       *)
(* dashboard drives (/api/watcher).  The dashboard page is modelled from   *)
(* its three scripts (src/src/web/static/js/dashboard.js and the two       *)
(* earlier versions under src/unnamed): rows and requests, paging,         *)
(* auto-refresh and watcher status, filters and views; the recommendation  *)
(* engine from the project documents.                                      *)
(***************************************************************************)
EXTENDS Integers, Sequences, FiniteSets, Bags, TLC

\* ------------------------------------------------------------------ bounds
MaxPaths == 2       \* files of the watched tree
MaxWrites == 2      \* files written or overwritten in one behaviour
MaxCount == 1       \* largest --max-files cap tried (0 stands for "no cap")

\* ------------------------------------------------------- program constants
\* "three or more consecutive failures for the same identity ... quarantine"
MaxRetries == 3

\* ------------------------------------------------------------- identities
Paths == 1..MaxPaths
Versions == 1..MaxWrites

\* The size and the mtime of the v-th content of path p.  Successive contents
\* of a path differ in the size alone or in the mtime alone, in turn; paths
\* with an odd number change their size first, the others their mtime.
SizeOf(p, v) == 1 + ((v - (p % 2)) \div 2)
MtimeOf(p, v) == 1 + ((v - 1 + (p % 2)) \div 2)

\* Variant: the key is the path alone.
IdentityByPath(p, v) == <<p, 1, 1>>

\* Identity of a file: the composite key path + size + modification time.
Identity(p, v) == <<p, SizeOf(p, v), MtimeOf(p, v)>>

Identities == {Identity(p, v) : p \in Paths, v \in Versions}
NoFile == <<0, 0, 0>>

Stages == {"extract", "analyze", "recommend", "put", "commit"}
AllParts == {"file_info", "analysis", "recommendations"}
Modes == {"new", "existing"}

VARIABLES
    fs,           \* watched tree: path -> 0 (absent) or the content it holds
    mountUp,      \* the watch path is reachable
    running,      \* WatcherState: the RUNNING / STOPPED flag
    seen,         \* WatcherState: the seen-set of identities
    processed,    \* WatcherState: files processed since process start
    failures,     \* consecutive failures per identity
    quarantined,  \* identities that exhausted the retry budget
    pc,           \* the loop: "idle" | "drain" | "poll" | "cycle"
    queue,        \* candidates of the backlog / of the current poll cycle
    inflight,     \* the identity being analyzed, or NoFile
    stage,        \* pipeline stage of the in-flight file, or "none"
    record,       \* parts of the Report built so far for the in-flight file
    sink,         \* Report Sink: a bag of stored records
    reply,        \* answer to the last control command: "none" | "ok"
                  \* (took effect) | "status" (no-op) | "error"
    failed,       \* failure list of the process-existing batch
    dispatched,   \* history: identities dispatched in this session
    seeded,       \* history: identities pre-seeded without analysis
    cap,          \* history: max-count of the backlog being drained
    drained,      \* history: dispatches of the backlog being drained
    done,         \* history: identities committed by this or an earlier process
    script,       \* dashboard: the script the page runs
    page,         \* dashboard: the reports the server holds, in API order
    table,        \* dashboard: rows of the analyses table
    toast,        \* dashboard: the notification on screen, or "none"
    modalOpen,    \* dashboard: the details modal is shown
    modalBody,    \* dashboard: contents of the details modal
    lastCall,     \* history: the last API request and how it ended
    frame,        \* engine: the analyzed frame handed to the engine, or <<>>
    report,       \* engine: the recommendations made for it, or <<>>
    currentPage,  \* paging: currentPage
    pending,      \* paging: loadAnalyses requests in flight
    shown,        \* paging: the page whose rows the table shows, 0 for none
    pager,        \* paging: the pagination control as last rendered, or <<>>
    burstOk,      \* history: no request failed since the page was last idle
    checked,      \* refresh: the auto-refresh checkbox / toggle
    watcherRunning,      \* refresh: watcherRunning
    refreshInterval,     \* refresh: refreshInterval, in seconds
    autoRefreshInterval, \* refresh: autoRefreshInterval holds a timer id
    countdownInterval,   \* refresh: countdownInterval holds a timer id
    refreshTimers,       \* refresh: periodic refresh timers that are active
    countdownTimers,     \* refresh: countdown timers that are active
    countdownValue,      \* refresh: countdownValue / refreshCountdown, seconds
    serverRunning,       \* status: the watcher runs, as the server has it
    statusPending,       \* status: a status request is in flight
    startDisabled,       \* status: the Start button is disabled
    stopDisabled,        \* status: the Stop button is disabled
    badge,               \* status: text of the watcher status badge
    allAnalysesData,     \* view: allAnalysesData, the analyses last loaded
    currentFilters,      \* view: currentFilters
    displayedCount,      \* view: number in the displayed-files-count element
    rows,                \* view: rows of the table last rendered into
    renderedInto,        \* view: the table last rendered into, or "none"
    currentView,         \* view: currentView
    preferredView,       \* view: localStorage 'preferred-view', "" for none
    compactHidden,       \* view: compact-view-table has the class d-none
    detailedHidden,      \* view: detailed-view-table has the class d-none
    summaryData,         \* view: the analyses the rig summary was made of
    rigSummary,          \* view: rows of the rig summary table
    cause         \* history: what made the last step reload the analyses

watcherVars == <<running, seen, processed, failures, quarantined, pc, queue,
                 inflight, stage, record, reply, failed>>
historyVars == <<dispatched, seeded, cap, drained, done>>
dashVars == <<script, page, table, toast, modalOpen, modalBody, lastCall>>
engineVars == <<frame, report>>
pagingVars == <<currentPage, pending, shown, pager, burstOk>>
statusVars == <<serverRunning, statusPending, startDisabled, stopDisabled,
                badge>>
timerVars == <<checked, watcherRunning, refreshInterval, autoRefreshInterval,
               countdownInterval, refreshTimers, countdownTimers,
               countdownValue, cause, statusVars>>
backendVars == <<fs, mountUp, sink, watcherVars, historyVars>>
viewVars == <<allAnalysesData, currentFilters, displayedCount, rows,
              renderedInto, currentView, preferredView, compactHidden,
              detailedHidden, summaryData, rigSummary>>
otherVars == <<dashVars, engineVars, pagingVars, timerVars, viewVars>>
vars == <<backendVars, otherVars>>

\* ----------------------------------------------------------------- helpers
\* Writes the tree has received so far.
RECURSIVE Written(_, _)
Written(tree, p) == IF p = 0 THEN 0 ELSE tree[p] + Written(tree, p - 1)

Present(tree) == {p \in Paths : tree[p] # 0}
PresentIds(tree) == {Identity(p, tree[p]) : p \in Present(tree)}

\* One directory listing: the identity of every file present, in path order.
RECURSIVE ListFrom(_, _)
ListFrom(tree, p) ==
    IF p > MaxPaths THEN <<>>
    ELSE IF tree[p] = 0 THEN ListFrom(tree, p + 1)
    ELSE <<Identity(p, tree[p])>> \o ListFrom(tree, p + 1)

Listing(tree) == ListFrom(tree, 1)

RECURSIVE Unseen(_, _)
Unseen(list, known) ==
    IF list = <<>> THEN <<>>
    ELSE IF Head(list) \in known THEN Unseen(Tail(list), known)
    ELSE <<Head(list)>> \o Unseen(Tail(list), known)

\* The identities of a listing that the seen-set does not hold.
Candidates(tree, known) == Unseen(Listing(tree), known)

Take(list, n) == IF n = 0 \/ n >= Len(list) THEN list ELSE SubSeq(list, 1, n)
Range(list) == {list[i] : i \in 1..Len(list)}

\* Variant: a put appends a record whatever the sink already holds.
SinkAppend(store, r) == store (+) SetToBag({r})

\* Report Sink put: the record stored for an identity replaces an earlier one.
SinkPut(store, r) ==
    [x \in {y \in DOMAIN store : y.id # r.id} \cup {r} |->
        IF x = r THEN 1 ELSE store[x]]

Records(store, id) == {x \in DOMAIN store : x.id = id}

RECURSIVE Copies(_, _)
Copies(store, rs) ==
    IF rs = {} THEN 0
    ELSE LET x == CHOOSE y \in rs : TRUE
         IN store[x] + Copies(store, rs \ {x})

\* Number of records the sink holds for an identity.
RecordCount(store, id) == Copies(store, Records(store, id))

WatcherInit ==
    /\ fs = [p \in Paths |-> 0]
    /\ mountUp = TRUE
    /\ running = FALSE
    /\ seen = {}
    /\ processed = 0
    /\ failures = [id \in Identities |-> 0]
    /\ quarantined = {}
    /\ pc = "idle"
    /\ queue = <<>>
    /\ inflight = NoFile
    /\ stage = "none"
    /\ record = {}
    /\ sink = EmptyBag
    /\ reply = "none"
    /\ dispatched = {}
    /\ seeded = {}
    /\ cap = 0
    /\ drained = 0
    /\ failed = {}
    /\ done = {}

\* The dashboard before its first request.
DashboardBlank ==
    /\ table = <<>>
    /\ toast = "none"
    /\ modalOpen = FALSE
    /\ modalBody = <<>>
    /\ lastCall = <<"none", "none">>

\* The engine before its first frame.
EngineBlank ==
    /\ frame = <<>>
    /\ report = <<>>

\* Paging before the first loadAnalyses.
PagingBlank ==
    /\ currentPage = 1
    /\ pending = {}
    /\ shown = 0
    /\ pager = <<>>
    /\ burstOk = TRUE

\* The refresh state as the scripts declare it.
TimersBlank ==
    /\ checked = FALSE
    /\ watcherRunning = FALSE
    /\ refreshInterval = 10
    /\ autoRefreshInterval = FALSE
    /\ countdownInterval = FALSE
    /\ refreshTimers = 0
    /\ countdownTimers = 0
    /\ countdownValue = 10
    /\ cause = "none"
    /\ serverRunning = FALSE
    /\ statusPending = FALSE
    /\ startDisabled = FALSE
    /\ stopDisabled = FALSE
    /\ badge = "unknown"

\* The filters and the view of a page nobody has touched; the older scripts
\* have neither.
NoFilters == [rig |-> "all", filterType |-> "all", status |-> "all"]

ViewBlank ==
    /\ allAnalysesData = <<>>
    /\ currentFilters = NoFilters
    /\ displayedCount = 0
    /\ rows = <<>>
    /\ renderedInto = "none"
    /\ currentView = "compact"
    /\ preferredView = ""
    /\ compactHidden = FALSE
    /\ detailedHidden = TRUE
    /\ summaryData = <<>>
    /\ rigSummary = {}

Init ==
    /\ WatcherInit
    /\ script = "dashboard.js"
    /\ page = <<>>
    /\ DashboardBlank
    /\ EngineBlank
    /\ PagingBlank
    /\ ViewBlank
    /\ TimersBlank

\* ------------------------------------------------------- control commands
\* Variant: a new-files-only start seeds nothing.
PreSeedNothing(known, tree) == known

\* New-files-only: every identity present at RUNNING-start enters the seen-set.
PreSeed(known, tree) == known \cup PresentIds(tree)

\* Variant: the backlog ignores max-count.
BacklogUncapped(tree, known, c) == Candidates(tree, known)

\* Process-existing: the pre-existing backlog, capped by max-count (0: no cap).
Backlog(tree, known, c) == Take(Candidates(tree, known), c)

\* Variant: a start command in RUNNING seeds the seen-set again.
SeenReseeded(known, tree) == known \cup PresentIds(tree)

\* The seen-set a start command leaves when the watcher already runs.
SeenWhenRunning(known, tree) == known

\* The processed-file count an effective start leaves.
StartProcessed(n) == n

\* GET /api/watcher/start, or the CLI entry with --continuous
\* (mode "new") or --continuous --process-existing-first [--max-files c].
Start(m, c) ==
    IF running
    THEN \* already running: report the status, change nothing
         /\ reply' = "status"
         /\ seen' = SeenWhenRunning(seen, fs)
         /\ UNCHANGED <<otherVars, fs, mountUp, sink, running, processed, failures,
                        quarantined, pc, queue, inflight, stage, record,
                        failed, historyVars>>
    ELSE /\ pc = "idle"          \* the previous loop has exited
         /\ IF ~mountUp
            THEN \* startup error: the watch path does not exist
                 /\ reply' = "error"
                 /\ UNCHANGED <<otherVars, fs, mountUp, sink, running, seen, processed,
                                failures, quarantined, pc, queue, inflight,
                                stage, record, failed, historyVars>>
            ELSE /\ running' = TRUE
                 /\ reply' = "ok"
                 /\ processed' = StartProcessed(processed)
                 /\ IF m = "new"
                    THEN /\ seen' = PreSeed(seen, fs)
                         /\ queue' = <<>>
                         /\ pc' = "poll"
                         /\ seeded' = seeded \cup (PresentIds(fs) \ seen)
                    ELSE LET b == Backlog(fs, seen, c)
                             rest == PresentIds(fs) \ Range(b)
                         IN /\ seen' = seen \cup rest
                            /\ queue' = b
                            /\ pc' = "drain"
                            /\ seeded' = seeded \cup (rest \ seen)
                 /\ cap' = IF m = "new" THEN 0 ELSE c
                 /\ drained' = 0
                 /\ failed' = {}
                 /\ UNCHANGED <<otherVars, fs, mountUp, sink, failures, quarantined,
                                inflight, stage, record, dispatched, done>>

\* The flag a stop command leaves.
StopFlag(flag) == FALSE

\* GET /api/watcher/stop, or Ctrl+C: cooperative, the loop observes the flag.
Stop ==
    IF ~running
    THEN /\ reply' = "status"
         /\ UNCHANGED <<otherVars, fs, mountUp, sink, running, seen, processed, failures,
                        quarantined, pc, queue, inflight, stage, record,
                        failed, historyVars>>
    ELSE /\ running' = StopFlag(running)
         /\ reply' = "ok"
         /\ UNCHANGED <<otherVars, fs, mountUp, sink, seen, processed, failures,
                        quarantined, pc, queue, inflight, stage, record,
                        failed, historyVars>>

\* ------------------------------------------------------------ watcher loop
\* Variant: the loop does not look whether the watch path is there.
ReachableAssumed(up) == TRUE

\* Whether the loop finds the watch path reachable.
Reachable(up) == up

\* Variant: an unreachable mount stops the watcher.
OnMountUnavailableFatal(flag) == FALSE

\* The flag the loop keeps when it finds the mount unreachable.
OnMountUnavailable(flag) == flag

\* Top of a poll cycle: observe stop, else list the tree and diff it
\* against the seen-set.
PollCycle ==
    /\ pc = "poll"
    /\ inflight = NoFile
    /\ IF ~running
       THEN /\ pc' = "idle"
            /\ UNCHANGED <<queue, running>>
       ELSE IF ~Reachable(mountUp)
       THEN /\ running' = OnMountUnavailable(running)
            /\ UNCHANGED <<pc, queue>>
       ELSE /\ queue' = Candidates(fs, seen)
            /\ pc' = "cycle"
            /\ UNCHANGED running
    /\ UNCHANGED <<otherVars, fs, mountUp, sink, seen, processed, failures, quarantined,
                   inflight, stage, record, reply, failed, historyVars>>

\* Variant: the loop dispatches without looking at the flag.
MayDispatchAlways(flag) == TRUE

\* Whether the loop may start the next per-file analysis.
MayDispatch(flag) == flag

\* The flag the loop keeps once the backlog or the cycle is exhausted.
OnExhausted(flag) == flag

\* Between two files of the backlog or of a cycle: observe stop, else
\* dispatch the next candidate to the pipeline.
NextFile ==
    /\ pc \in {"drain", "cycle"}
    /\ inflight = NoFile
    /\ IF ~MayDispatch(running)
       THEN /\ pc' = "idle"
            /\ queue' = <<>>
            /\ cap' = 0
            /\ drained' = 0
            /\ UNCHANGED <<running, inflight, stage, record, dispatched>>
       ELSE IF queue = <<>>
       THEN /\ pc' = "poll"
            /\ running' = OnExhausted(running)
            /\ cap' = 0
            /\ drained' = 0
            /\ UNCHANGED <<queue, inflight, stage, record, dispatched>>
       ELSE IF ~Reachable(mountUp)
       THEN /\ running' = OnMountUnavailable(running)
            /\ UNCHANGED <<pc, queue, inflight, stage, record, dispatched,
                           cap, drained>>
       ELSE /\ inflight' = Head(queue)
            /\ queue' = Tail(queue)
            /\ stage' = "extract"
            /\ record' = {}
            /\ dispatched' = dispatched \cup {Head(queue)}
            /\ drained' = IF pc = "drain" THEN drained + 1 ELSE drained
            /\ UNCHANGED <<pc, running, cap>>
    /\ failed' = IF ~MayDispatch(running) \/ queue = <<>> THEN {} ELSE failed
    /\ UNCHANGED <<otherVars, fs, mountUp, sink, seen, processed, failures, quarantined,
                   reply, seeded, done>>

NextStage(s) ==
    CASE s = "extract" -> "analyze"
      [] s = "analyze" -> "recommend"
      [] s = "recommend" -> "put"
      [] s = "put" -> "commit"

PartOf(s) ==
    CASE s = "extract" -> {"file_info"}
      [] s = "analyze" -> {"analysis"}
      [] s = "recommend" -> {"recommendations"}

\* Metadata Extractor, Photometric Analyzer, Recommendation Engine: a stage
\* succeeds and adds its part to the Report under construction.
StageOK ==
    /\ inflight # NoFile
    /\ stage \in {"extract", "analyze", "recommend"}
    /\ record' = record \cup PartOf(stage)
    /\ stage' = NextStage(stage)
    /\ UNCHANGED <<otherVars, fs, mountUp, sink, running, seen, processed, failures,
                   quarantined, pc, queue, inflight, reply, failed,
                   historyVars>>

\* Report Sink put of the finished Report.
PutOK ==
    /\ inflight # NoFile
    /\ stage = "put"
    /\ sink' = SinkPut(sink, [id |-> inflight, parts |-> record])
    /\ stage' = NextStage(stage)
    /\ UNCHANGED <<otherVars, fs, mountUp, running, seen, processed, failures,
                   quarantined, pc, queue, inflight, record, reply, failed,
                   historyVars>>

\* The seen-set after the full pipeline succeeded for an identity.
MarkSeen(known, id) == known \cup {id}

\* The watcher marks the file processed.
Committed ==
    /\ inflight # NoFile
    /\ stage = "commit"
    /\ seen' = MarkSeen(seen, inflight)
    /\ processed' = processed + 1
    /\ failures' = [failures EXCEPT ![inflight] = 0]
    /\ inflight' = NoFile
    /\ stage' = "none"
    /\ record' = {}
    /\ UNCHANGED <<otherVars, fs, mountUp, sink, running, quarantined, pc, queue,
                   reply, failed, dispatched, seeded, cap, drained>>

Commit == Committed /\ UNCHANGED done

\* The same step, with the identity noted in the history of commits.
CommitNoted == Committed /\ done' = done \cup {inflight}

\* Variant: no retry budget.
ExhaustedNever(n) == FALSE

\* Whether an identity that failed n times in a row is quarantined.
Exhausted(n) == n >= MaxRetries

\* Variant: a failed identity is marked done at once.
SeenOnFailureAlways(known, id, n) == known \cup {id}

\* The seen-set after a stage failed for an identity that had failed n times.
SeenOnFailure(known, id, n) ==
    IF Exhausted(n + 1) THEN known \cup {id} ELSE known

\* Variant: a failed pipeline stores the parts it has.
SinkOnFailurePartial(store, id, parts) ==
    SinkPut(store, [id |-> id, parts |-> parts])

\* What a failed pipeline leaves in the sink.
SinkOnFailure(store, id, parts) == store

\* Variant: the first failure abandons the rest of the cycle or batch.
QueueAbandoned(q) == <<>>

\* The candidates still to be dispatched after a per-file failure.
QueueOnFailure(q) == q

\* The failure list of a process-existing batch after a file of it failed.
FailureList(list, id, phase) ==
    IF phase = "drain" THEN list \cup {id} ELSE list

\* The flag the loop keeps after a per-file failure.
OnFileFailure(flag) == flag

\* UnreadableFileError and the like: caught per file, logged, and the
\* identity is retried on a later poll, or quarantined once the budget is spent.
StageFail ==
    /\ inflight # NoFile
    /\ stage \in {"extract", "analyze", "recommend", "put"}
    /\ failures' = [failures EXCEPT ![inflight] =
                        IF Exhausted(@ + 1) THEN 0 ELSE @ + 1]
    /\ seen' = SeenOnFailure(seen, inflight, failures[inflight])
    /\ quarantined' = IF Exhausted(failures[inflight] + 1)
                      THEN quarantined \cup {inflight} ELSE quarantined
    /\ sink' = SinkOnFailure(sink, inflight, record)
    /\ running' = OnFileFailure(running)
    /\ inflight' = NoFile
    /\ stage' = "none"
    /\ record' = {}
    /\ queue' = QueueOnFailure(queue)
    /\ failed' = FailureList(failed, inflight, pc)
    /\ UNCHANGED <<otherVars, fs, mountUp, processed, pc, reply, historyVars>>

\* The seen-set a restarted process begins with: the set of processed files
\* is kept in memory.
SeenAfterRestart(known) == {}

\* The process dies (at any point, also between the sink put and the
\* seen-set commit) and is started again: WatcherState is rebuilt, the
\* reports written so far stay.
Crash ==
    /\ running' = FALSE
    /\ seen' = SeenAfterRestart(seen)
    /\ processed' = 0
    /\ failures' = [id \in Identities |-> 0]
    /\ quarantined' = {}
    /\ pc' = "idle"
    /\ queue' = <<>>
    /\ inflight' = NoFile
    /\ stage' = "none"
    /\ record' = {}
    /\ reply' = "none"
    /\ dispatched' = {}
    /\ seeded' = {}
    /\ cap' = 0
    /\ drained' = 0
    /\ failed' = {}
    /\ UNCHANGED <<otherVars, fs, mountUp, sink, done>>

\* ------------------------------------------------------------ environment
\* The imaging rig writes a new file, or overwrites one in place.
FileWritten(p) ==
    /\ Written(fs, MaxPaths) < MaxWrites
    /\ fs' = [fs EXCEPT ![p] = @ + 1]
    /\ UNCHANGED <<otherVars, mountUp, sink, watcherVars, historyVars>>

MountLost ==
    /\ mountUp
    /\ mountUp' = FALSE
    /\ UNCHANGED <<otherVars, fs, sink, watcherVars, historyVars>>

MountBack ==
    /\ ~mountUp
    /\ mountUp' = TRUE
    /\ UNCHANGED <<otherVars, fs, sink, watcherVars, historyVars>>

Command == (\E m \in Modes, c \in 0..MaxCount : Start(m, c)) \/ Stop
Loop == PollCycle \/ NextFile \/ StageOK \/ PutOK \/ Commit \/ StageFail
Environment ==
    \/ \E p \in Paths : FileWritten(p)
    \/ MountLost
    \/ MountBack

Next == Command \/ Loop \/ Crash \/ Environment

Spec == Init /\ [][Next]_vars

\* The loop, being a thread of its own, keeps taking steps.
FairSpec == Spec /\ WF_vars(Loop)

\* The same machine with the history of commits recorded across restarts.
NotedLoop ==
    PollCycle \/ NextFile \/ StageOK \/ PutOK \/ CommitNoted \/ StageFail
NotedNext == Command \/ NotedLoop \/ Crash \/ Environment
NotedSpec == Init /\ [][NotedNext]_vars

\* ================================================================= claims
\* Steps of a behaviour, as the claims name them.
Dispatch(id) == inflight = NoFile /\ inflight' = id /\ id # NoFile
ListingStep == pc = "poll" /\ pc' = "cycle"
\* (a crash leaves the loop idle, a step of the loop between two files does not)
FailureStep(id) ==
    /\ inflight = id /\ id # NoFile
    /\ inflight' = NoFile
    /\ stage # "commit"
    /\ pc' = pc
SuccessStep(id) ==
    /\ inflight = id /\ id # NoFile
    /\ inflight' = NoFile
    /\ stage = "commit"
    /\ pc' = pc
\* (a fresh process has answered no command yet)
LoopExit == pc # "idle" /\ pc' = "idle" /\ reply' # "none"
KeyOf(p) == <<p, SizeOf(p, fs[p]), MtimeOf(p, fs[p])>>

\* C1 (as stated): within one session an identity is dispatched to analysis
\* at most once.
C1_DispatchedAtMostOnce ==
    [][\A id \in Identities : Dispatch(id) => id \notin dispatched]_vars

\* C1 (amended): within one session an identity that the seen-set holds is
\* never dispatched, and an identity is dispatched a second time only after an
\* attempt on it failed; at every listing the candidates are exactly the files
\* whose (path, size, mtime) the seen-set does not hold, so a file whose size
\* or mtime changed is dispatched again as a new identity.
C1_DispatchedOncePerSuccess ==
    [][/\ \A id \in Identities :
            Dispatch(id) =>
               /\ id \notin seen
               /\ id \in dispatched => failures[id] >= 1
       /\ ListingStep =>
            \A p \in Paths :
               fs[p] # 0 =>
                  (KeyOf(p) \in Range(queue') <=> KeyOf(p) \notin seen)]_vars

\* A changed file is analyzed again: its earlier content was processed with
\* success and its new content is in flight.
C1_Witness ==
    \E p \in Paths :
        /\ fs[p] = 2
        /\ inflight = <<p, SizeOf(p, 2), MtimeOf(p, 2)>>
        /\ <<p, SizeOf(p, 1), MtimeOf(p, 1)>> \in seen \ (seeded \cup quarantined)
        /\ <<p, SizeOf(p, 1), MtimeOf(p, 1)>> \in dispatched

C4_PreExistingIgnored ==
    [][/\ seeded' \subseteq seen'
       /\ \A id \in seeded : ~Dispatch(id)]_vars

\* Started in new-files-only mode with one file in the tree: that file is
\* seeded and was never dispatched, and its later content is being analyzed.
C4_Witness ==
    /\ fs[1] = 2
    /\ fs[2] = 0
    /\ running
    /\ <<1, SizeOf(1, 1), MtimeOf(1, 1)>> \in seeded \ dispatched
    /\ inflight = <<1, SizeOf(1, 2), MtimeOf(1, 2)>>

\* C5: the loop exits only between files, an analysis in flight ends only by
\* the commit or by its failure being recorded, and every record of the sink
\* holds all parts of a Report.
C5_InFlightCompletes ==
    [][/\ LoopExit => inflight = NoFile /\ inflight' = NoFile
       /\ \A id \in Identities :
            (~running /\ inflight = id /\ inflight' # id /\ pc' = pc) =>
               \/ SuccessStep(id) /\ id \in seen' /\ processed' = processed + 1
               \/ FailureStep(id) /\ failures'[id] = failures[id] + 1
               \/ FailureStep(id) /\ id \in quarantined'
       /\ \A r \in BagToSet(sink') : r.parts = AllParts]_vars

\* Stop was requested while a file was in flight, and its Report reached the
\* sink.
C5_Witness ==
    /\ ~running
    /\ pc # "idle"
    /\ inflight # NoFile
    /\ stage = "commit"
    /\ [id |-> inflight, parts |-> AllParts] \in BagToSet(sink)

\* C6: an identity never has MaxRetries failures on record: the failure that
\* reaches the budget quarantines it (seen-set, no record written), an earlier
\* failure only counts, and a quarantined identity stays quarantined and is
\* never dispatched again in the session.
C6_QuarantineAfterMaxRetries ==
    [][\A id \in Identities :
          /\ failures'[id] < MaxRetries
          /\ (FailureStep(id) /\ failures[id] + 1 >= MaxRetries) =>
                /\ id \in seen'
                /\ id \in quarantined'
                /\ sink' = sink
          /\ (FailureStep(id) /\ failures[id] + 1 < MaxRetries) =>
                /\ id \notin quarantined'
                /\ failures'[id] = failures[id] + 1
          /\ id \in quarantined =>
                /\ ~Dispatch(id)
                /\ id \in quarantined' \/ (pc' = "idle" /\ reply' = "none")]_vars

\* A file failed MaxRetries times: it is quarantined, the sink holds no record
\* of it, and the cycle has no candidate left.
C6_Witness ==
    \E p \in Paths :
        /\ fs[p] # 0
        /\ KeyOf(p) \in quarantined \cap seen
        /\ RecordCount(sink, KeyOf(p)) = 0
        /\ running
        /\ pc = "cycle"
        /\ queue = <<>>
        /\ inflight = NoFile

\* C7: a process-existing start takes at most max-count identities into the
\* backlog and leaves every other pre-existing identity in the seen-set; while
\* the backlog is drained only its head is dispatched and no listing refills
\* it; polling begins only when the backlog is empty and nothing is in flight.
C7_BacklogFirst ==
    [][/\ (pc = "idle" /\ pc' = "drain") =>
            /\ cap' = 0 \/ Len(queue') <= cap'
            /\ PresentIds(fs) \subseteq (seen' \cup Range(queue'))
            /\ Range(queue') \cap seen' = {}
       /\ (pc = "drain" /\ pc' = "poll") => (queue = <<>> /\ inflight = NoFile)
       /\ (pc = "drain" /\ pc' = "drain") =>
            (queue' = queue \/ (queue # <<>> /\ queue' = Tail(queue)))
       /\ pc = "drain" =>
            \A id \in Identities :
               Dispatch(id) =>
                  (queue # <<>> /\ id = Head(queue) /\ drained' = drained + 1)
       /\ (pc' = "drain" /\ cap' > 0) => drained' + Len(queue') <= cap']_vars

\* Two files existed, the cap was one: one was dispatched and processed, the
\* other was left alone, and the drain is about to hand over to polling.
C7_Witness ==
    /\ pc = "drain"
    /\ cap = 1
    /\ drained = 1
    /\ queue = <<>>
    /\ inflight = NoFile
    /\ processed = 1
    /\ Cardinality(PresentIds(fs)) = 2
    /\ Cardinality(seeded) = 1
    /\ Cardinality(dispatched) = 1

\* C8: a start command in RUNNING and a stop command in STOPPED answer with
\* the status and leave the running flag, the seen-set and the processed-file
\* count as they were.
C8_RedundantCommandsAreNoOps ==
    [][/\ (running /\ \E m \in Modes, c \in 0..MaxCount : Start(m, c)) =>
            (reply' = "status" /\ UNCHANGED <<running, seen, processed>>)
       /\ (~running /\ Stop) =>
            (reply' = "status" /\ UNCHANGED <<running, seen, processed>>)]_vars

\* A start command was answered with the status while a file was in flight.
C8_Witness ==
    /\ running
    /\ reply = "status"
    /\ inflight # NoFile
    /\ processed = 1

\* C9: the running flag changes only in a step of a start or stop command (or
\* when the process itself dies); no step of the loop changes it.
C9_OnlyCommandsToggle ==
    [][running' # running =>
          \/ \E m \in Modes, c \in 0..MaxCount : Start(m, c)
          \/ Stop
          \/ Crash]_vars

\* An identity was quarantined, the cycle is exhausted and the mount is gone:
\* the watcher is still RUNNING.
C9_Witness ==
    /\ running
    /\ ~mountUp
    /\ quarantined # {}
    /\ pc = "poll"

\* C10: once the flag says STOPPED the loop dispatches no file and lists no
\* directory, its next step between two files is its exit, and it does exit.
C10_StopObserved ==
    /\ [][~running =>
             /\ \A id \in Identities : ~Dispatch(id)
             /\ ~ListingStep
             /\ (inflight = NoFile /\ pc # "idle" /\ pc' # pc) => pc' = "idle"]_vars
    /\ (~running ~> pc = "idle")

\* The loop has exited after a stop: one file was analyzed, a candidate that
\* the same cycle had listed was not.
C10_Witness ==
    /\ ~running
    /\ pc = "idle"
    /\ reply = "ok"
    /\ processed = 1
    /\ Cardinality(dispatched) = 1
    /\ \E p \in Paths : fs[p] # 0 /\ KeyOf(p) \notin seen

\* C11: a per-file failure leaves the remaining candidates, the phase and the
\* running flag as they were; a candidate leaves the queue only by being
\* dispatched; the failure list of a batch starts empty, gains exactly the
\* identity of each file of the batch that fails and nothing else, and at the
\* end of the batch holds only identities that did not succeed.
C11_FailuresIsolated ==
    [][/\ \A id \in Identities :
            FailureStep(id) =>
                /\ queue' = queue
                /\ running' = running
                /\ pc = "drain" => failed' = failed \cup {id}
       /\ (pc \in {"drain", "cycle"} /\ pc' = pc /\ queue' # queue) =>
            /\ queue # <<>>
            /\ Dispatch(Head(queue))
            /\ queue' = Tail(queue)
       /\ (pc = "idle" /\ pc' = "drain") => failed' = {}
       /\ (pc = "drain" /\ pc' = "drain"
             /\ ~ \E id \in Identities : FailureStep(id)) => failed' = failed
       /\ (pc = "drain" /\ pc' = "poll") =>
            /\ queue = <<>>
            /\ failed \subseteq dispatched
            /\ failed \cap seen \subseteq quarantined
            /\ Cardinality(failed) <= drained]_vars

\* A batch of two: the first file failed and is on the failure list, the
\* second is being analyzed, the watcher runs.
C11_Witness ==
    /\ running
    /\ pc = "drain"
    /\ failed # {}
    /\ inflight # NoFile
    /\ inflight \notin failed
    /\ drained = 2

\* C12: while the watch path is unreachable the loop lists nothing and
\* dispatches nothing, and only a stop command or the death of the process
\* ends RUNNING or the loop; when the path is reachable the loop at the top
\* of a cycle lists the tree, and a pending candidate is dispatched.
C12_MountOutageNotFatal ==
    /\ [][~mountUp =>
             /\ \A id \in Identities : ~Dispatch(id)
             /\ ~ListingStep
             /\ (running /\ ~running') => (Stop \/ Crash)
             /\ (running /\ running' /\ pc # "idle") => pc' # "idle"]_vars
    /\ (running /\ mountUp /\ pc = "poll" /\ inflight = NoFile)
          ~> (pc = "cycle" \/ ~running \/ ~mountUp)
    /\ (running /\ mountUp /\ pc \in {"drain", "cycle"}
           /\ queue # <<>> /\ inflight = NoFile)
          ~> (inflight # NoFile \/ ~running \/ ~mountUp)

\* The path went away in the middle of a cycle: a candidate is pending,
\* nothing is in flight, the watcher is RUNNING.
C12_Witness ==
    /\ running
    /\ ~mountUp
    /\ pc = "cycle"
    /\ queue # <<>>
    /\ inflight = NoFile
    /\ processed = 1

\* C14: an identity that was committed as processed, by this process or by
\* one before a restart, is not dispatched again.
C14_ProcessedSurvivesRestart ==
    [][\A id \in Identities : Dispatch(id) => id \notin done]_vars

\* ================================================================ dashboard
\* The browser script (src/web/static/js/dashboard.js and its two earlier
\* versions part_000, part_001).  Floats are held in hundredths.

MaxReports == 2     \* reports on the page the server returns

Null == 0 - 1       \* a JSON null
Undefined == 0 - 2  \* a field that is absent
HighCut == 150      \* if (factor > 1.5)
LowCut == 67        \* if (factor < 0.67)
DefaultFactor == 100 \* analysisData.exposure_factor || 1

Scripts == {"dashboard.js", "part_000", "part_001"}
Guarded(s) == s \in {"dashboard.js", "part_000"}

\* JavaScript on numbers that may be null or undefined.
Missing(x) == x < 0
Falsy(x) == x <= 0
OrElse(x, d) == IF Falsy(x) THEN d ELSE x
ToNumber(x) == IF x = Null THEN 0 ELSE x
Greater(x, c) == x # Undefined /\ ToNumber(x) > c
Less(x, c) == x # Undefined /\ ToNumber(x) < c

\* Recommendation engine: exposure_factor = recommended / current, left null
\* when it cannot be computed.
EngineFactor(cur, rec) ==
    IF cur > 0 /\ rec >= 0 THEN (100 * rec) \div cur ELSE Null

\* A Report as the API returns it: file_info and analysis may be null, and
\* inside analysis the blocks and the float fields may be null.
Report(named, has, cur, rec, sky, mag, snr, bkg, sat, sev, pix, pct) ==
    [named |-> named, has |-> has, cur |-> cur, rec |-> rec,
     factor |-> EngineFactor(cur, rec),
     sky |-> sky, mag |-> mag, snr |-> snr, bkg |-> bkg,
     sat |-> sat, sev |-> sev, pix |-> pix, pct |-> pct]

Exposed(cur, rec) ==
    Report(TRUE, TRUE, cur, rec, TRUE, 2100, TRUE, 910, TRUE, "NONE", 0, 0)

Samples ==
    {Exposed(100, r) : r \in {66, 67, 68, 100, 149, 150, 151, Null}}
    \cup {Exposed(200, r) : r \in {132, 134, 300, 302}}
    \cup {Exposed(Null, Null), Exposed(0, 100)}
    \cup {Report(TRUE, TRUE, 100, 100, sk[1], sk[2], TRUE, 910, TRUE, "NONE", 0, 0) :
            sk \in {<<FALSE, Undefined>>, <<TRUE, Null>>, <<TRUE, 0>>,
                    <<TRUE, 1850>>}}
    \cup {Report(TRUE, TRUE, 100, 100, TRUE, 2100, sn[1], sn[2], TRUE, "NONE", 0, 0) :
            sn \in {<<FALSE, Undefined>>, <<TRUE, Null>>, <<TRUE, 0>>}}
    \cup {Report(TRUE, TRUE, 100, 100, TRUE, 2100, TRUE, 910, sa[1], sa[2], sa[3], sa[4]) :
            sa \in {<<FALSE, "absent", Undefined, Undefined>>,
                    <<TRUE, "CRITICAL", 5, Null>>,
                    <<TRUE, "MODERATE", 5, 1>>}}
    \cup {Report(TRUE, FALSE, Undefined, Undefined, FALSE, Undefined, FALSE,
                 Undefined, FALSE, "absent", Undefined, Undefined),
          Report(FALSE, TRUE, 100, 100, TRUE, 2100, TRUE, 910, TRUE, "NONE", 0, 0)}

\* The body of an error answer, read as if it were a Report.
ErrorBody ==
    Report(FALSE, FALSE, Undefined, Undefined, FALSE, Undefined, FALSE,
           Undefined, FALSE, "absent", Undefined, Undefined)

\* The reports that fill the rest of a page: a complete one and one whose
\* analysis block is null.
Fillers ==
    {Exposed(100, 100),
     Report(TRUE, FALSE, Undefined, Undefined, FALSE, Undefined, FALSE,
            Undefined, FALSE, "absent", Undefined, Undefined)}

\* Pages of up to MaxReports reports: any sample at any place, fillers
\* around it.
Pages ==
    UNION {{[i \in 1..n |-> IF i = k THEN a ELSE f[i]] :
               a \in Samples, k \in 1..n, f \in [1..n -> Fillers]} :
           n \in 1..MaxReports}

\* A field of the analysis block as the guarded scripts read it
\* (analysis.analysis || {}, analysisData.sky_brightness || {}).
Field(present, value) == IF present THEN value ELSE Undefined

\* Variant: the cutpoints themselves leave the good band.
ExposureBadgeClosed(f) ==
    IF ~Greater(f, LowCut) /\ f # Undefined THEN "low"
    ELSE IF ~Less(f, HighCut) /\ f # Undefined THEN "high"
    ELSE "good"

\* createCompactRow, createDetailedRow, updateAnalysesTable: the exposure
\* badge of a factor.
ExposureBadge(f) ==
    IF Less(f, LowCut) THEN "low"
    ELSE IF Greater(f, HighCut) THEN "high"
    ELSE "good"

\* The factor the badge is derived from.
FactorRead(s, r) ==
    IF Guarded(s)
    THEN OrElse(Field(r.has, r.factor), DefaultFactor)
    ELSE r.factor

\* `${x}s` of a number that may be null or undefined.
Interpolated(x) ==
    IF x = Null THEN <<"null", 0>>
    ELSE IF x = Undefined THEN <<"undefined", 0>>
    ELSE <<"value", x>>

\* The exposure cell: analysisData.current_exposure || 0 in the guarded
\* scripts, the bare field in part_001.
ExposureCell(s, r) ==
    IF Guarded(s)
    THEN <<"value", OrElse(Field(r.has, r.cur), 0)>>
    ELSE Interpolated(r.cur)

\* x ? x.toFixed(1) : 'N/A'
ValueOrNA(x) == IF Falsy(x) THEN <<"na", 0>> ELSE <<"value", x>>

SkyCell(s, r) == ValueOrNA(Field(r.has /\ r.sky, r.mag))

\* snr.snr_background ? ... : 'N/A' in the guarded scripts,
\* snr_background.toFixed(1) in part_001.
SnrCell(s, r) ==
    IF Guarded(s)
    THEN ValueOrNA(Field(r.has /\ r.snr, r.bkg))
    ELSE <<"value", r.bkg>>

\* One row of the analyses table.
RowOf(s, r) ==
    [band |-> ExposureBadge(FactorRead(s, r)),
     exposure |-> ExposureCell(s, r),
     sky |-> SkyCell(s, r),
     snr |-> SnrCell(s, r)]

\* Whether building the row throws a TypeError: part_001 reads the blocks
\* and calls toFixed without a guard.
RowFaults(s, r) ==
    /\ ~Guarded(s)
    /\ \/ ~r.named
       \/ ~r.has
       \/ ~r.sat
       \/ ~r.sky
       \/ ~r.snr
       \/ Missing(r.rec)
       \/ Missing(r.bkg)

\* Number of rows built before the first report whose row throws.
RECURSIVE Built(_, _, _)
Built(s, reports, i) ==
    IF i > Len(reports) \/ RowFaults(s, reports[i])
    THEN i - 1
    ELSE Built(s, reports, i + 1)

\* The analyses table after rendering a list of reports: the guarded
\* scripts assign the finished html, part_001 appends row by row.
RenderTable(s, reports) ==
    [i \in 1..Built(s, reports, 1) |-> RowOf(s, reports[i])]

\* Whether createAnalysisDetailsHTML throws on a report.
DetailFaults(s, r) ==
    CASE s = "dashboard.js" -> FALSE
      [] s = "part_000" ->
            r.has /\ r.sat /\ ~Falsy(r.pix) /\ Missing(r.pct)
      [] s = "part_001" ->
            \/ ~r.named
            \/ ~r.has
            \/ ~r.sat
            \/ ~r.sky
            \/ ~r.snr
            \/ Missing(r.rec)
            \/ Missing(r.factor)
            \/ Missing(r.bkg)
            \/ Missing(r.pct)

\* How a request ends: "ok", "http" (a non-OK status with a JSON error
\* body) or "network" (fetch rejects, or the body is not JSON).
Outcomes == {"ok", "http", "network"}

\* Whether the handler looks at response.ok before it reads the body.
ChecksStatus(s, api) ==
    CASE api = "analyses" -> Guarded(s)
      [] api = "details" -> Guarded(s)
      [] api = "status" -> TRUE
      [] OTHER -> FALSE

\* Whether the handler's catch shows something to the user.
CatchShows(s, api) ==
    CASE api = "analyses" -> Guarded(s)
      [] api = "details" -> TRUE
      [] api = "start" -> TRUE
      [] api = "stop" -> TRUE
      [] api = "process_existing" -> TRUE
      [] OTHER -> FALSE

\* loadAnalyses: GET /api/analyses, then the table is rendered.
LoadAnalyses(o) ==
    /\ lastCall' = <<"analyses", o>>
    /\ IF o = "ok"
       THEN /\ table' = RenderTable(script, page)
            /\ toast' = toast
       ELSE IF o = "http" /\ ~ChecksStatus(script, "analyses")
       THEN \* updateAnalysesTable(undefined): the table is emptied, then
            \* analyses.forEach throws
            /\ table' = <<>>
            /\ toast' = toast
       ELSE /\ table' = table
            /\ toast' = IF CatchShows(script, "analyses") THEN "error" ELSE toast
    /\ UNCHANGED <<script, page, modalOpen, modalBody>>
    /\ UNCHANGED <<backendVars, viewVars, engineVars, pagingVars, timerVars>>

\* Variant: the body of a non-OK answer is shown like a Report.
UsableAnyStatus(s, api, o) == o \in {"ok", "http"}

\* Whether the handler goes on to use the body of the answer.
Usable(s, api, o) ==
    \/ o = "ok"
    \/ o = "http" /\ ~ChecksStatus(s, api)

\* viewAnalysisDetails / showAnalysisModal: GET /api/analysis/{filename} for
\* the file of row i, or for a filename the server does not know (i = 0,
\* answered 404).
ViewAnalysisDetails(i, o) ==
    /\ i \in 0..Len(page)
    /\ i = 0 => o # "ok"
    /\ lastCall' = <<IF i = 0 THEN "unknown" ELSE "details", o>>
    /\ LET body == IF o = "ok" THEN page[i] ELSE ErrorBody
       IN IF Usable(script, "details", o) /\ ~DetailFaults(script, body)
          THEN /\ modalBody' = <<body>>
               /\ modalOpen' = TRUE
               /\ toast' = toast
          ELSE /\ UNCHANGED <<modalBody, modalOpen>>
               /\ toast' = IF CatchShows(script, "details") THEN "error" ELSE toast
    /\ UNCHANGED <<script, page, table>>
    /\ UNCHANGED <<backendVars, viewVars, engineVars, pagingVars, timerVars>>

\* loadWatcherStatus: GET /api/watcher/status; the catch logs to the console.
LoadWatcherStatus(o) ==
    /\ Guarded(script)
    /\ lastCall' = <<"status", o>>
    /\ toast' = IF o # "ok" /\ CatchShows(script, "status") THEN "error" ELSE toast
    /\ UNCHANGED <<script, page, table, modalOpen, modalBody>>
    /\ UNCHANGED <<backendVars, viewVars, engineVars, pagingVars, timerVars>>

\* loadRigSummary: GET /api/analyses?page=1&per_page=100, no status check;
\* the catch logs to the console.
LoadRigSummary(o) ==
    /\ script = "dashboard.js"
    /\ lastCall' = <<"rig", o>>
    /\ toast' = IF o = "network" /\ CatchShows(script, "rig") THEN "error" ELSE toast
    /\ UNCHANGED <<script, page, table, modalOpen, modalBody>>
    /\ UNCHANGED <<backendVars, viewVars, engineVars, pagingVars, timerVars>>

\* startWatcher / stopWatcher: no status check, data.message or the default
\* text is shown as a success; the catch shows an error.
WatcherCommand(api, o) ==
    /\ api \in {"start", "stop"}
    /\ api = "stop" => Guarded(script)
    /\ lastCall' = <<api, o>>
    /\ toast' = IF Usable(script, api, o) THEN "success"
                ELSE IF CatchShows(script, api) THEN "error"
                ELSE toast
    /\ UNCHANGED <<script, page, table, modalOpen, modalBody>>
    /\ UNCHANGED <<backendVars, viewVars, engineVars, pagingVars, timerVars>>

\* part_001 only: loadRecommendations and updateStats (nothing is shown on
\* failure) and processExisting (data.message or the error is alerted).
AuxRequest(api, o) ==
    /\ script = "part_001"
    /\ api \in {"recommendations", "stats", "process_existing"}
    /\ lastCall' = <<api, o>>
    /\ toast' = IF api # "process_existing" THEN toast
                ELSE IF Usable(script, api, o) THEN "success"
                ELSE "error"
    /\ UNCHANGED <<script, page, table, modalOpen, modalBody>>
    /\ UNCHANGED <<backendVars, viewVars, engineVars, pagingVars, timerVars>>

\* The URL a handler requests.
Endpoint(s, api) ==
    CASE api \in {"analyses", "rig"} -> "/api/analyses"
      [] api \in {"details", "unknown"} ->
            IF Guarded(s) THEN "/api/analysis/{filename}"
            ELSE "/api/analyze/{filename}"
      [] api = "status" -> "/api/watcher/status"
      [] api = "start" ->
            IF Guarded(s) THEN "/api/watcher/start" ELSE "/api/start_watcher"
      [] api = "stop" -> "/api/watcher/stop"
      [] api = "recommendations" -> "/api/recommendations"
      [] api = "stats" -> "/api/stats"
      [] api = "process_existing" -> "/api/process_existing"

\* The toast hides after its delay; the user closes the modal.
ToastHidden ==
    /\ toast # "none"
    /\ toast' = "none"
    /\ UNCHANGED <<script, page, table, modalOpen, modalBody, lastCall>>
    /\ UNCHANGED <<backendVars, viewVars, engineVars, pagingVars, timerVars>>

ModalClosed ==
    /\ modalOpen
    /\ modalOpen' = FALSE
    /\ UNCHANGED <<script, page, table, toast, modalBody, lastCall>>
    /\ UNCHANGED <<backendVars, viewVars, engineVars, pagingVars, timerVars>>

\* A page of the dashboard, running one of the scripts against a server that
\* holds some reports.
DashInit ==
    /\ WatcherInit
    /\ script \in Scripts
    /\ page \in Pages
    /\ DashboardBlank
    /\ EngineBlank
    /\ PagingBlank
    /\ ViewBlank
    /\ TimersBlank

DashNext ==
    \/ \E o \in Outcomes : LoadAnalyses(o)
    \/ \E i \in 0..MaxReports, o \in Outcomes : ViewAnalysisDetails(i, o)
    \/ \E o \in Outcomes : LoadWatcherStatus(o)
    \/ \E o \in Outcomes : LoadRigSummary(o)
    \/ \E api \in {"start", "stop"}, o \in Outcomes : WatcherCommand(api, o)
    \/ \E api \in {"recommendations", "stats", "process_existing"}, o \in Outcomes :
          AuxRequest(api, o)
    \/ ToastHidden
    \/ ModalClosed

DashSpec == DashInit /\ [][DashNext]_vars

\* ======================================================== dashboard claims
\* The band the ratio recommended / current falls in, the cutpoints being
\* good.
BandOfRatio(rec, cur) ==
    IF 100 * rec < LowCut * cur THEN "low"
    ELSE IF 100 * rec > HighCut * cur THEN "high"
    ELSE "good"

\* The row of the table shows a result with a current exposure above zero
\* and a recommended exposure.
Rated(i) ==
    /\ i \in DOMAIN table
    /\ page[i].has
    /\ page[i].cur > 0
    /\ page[i].rec > 0

\* C15: every row of the table whose result has current_exposure > 0 carries
\* the band of the ratio recommended_exposure / current_exposure: low below
\* 0.67, high above 1.5, good otherwise, 0.67 and 1.5 included.
C15_BandIsFunctionOfRatio ==
    \A i \in 1..MaxReports :
        Rated(i) => table[i].band = BandOfRatio(page[i].rec, page[i].cur)

\* A 200 s frame with 300 s recommended (ratio exactly 1.5) is shown good.
C15_Witness ==
    \E i \in 1..MaxReports :
        /\ Rated(i)
        /\ page[i].cur = 200
        /\ page[i].rec = 300
        /\ table[i].band = "good"

\* Recommendation engine (spec.md 4.3): the verdict on an exposure factor.
EngineVerdict(f) ==
    IF f >= HighCut THEN "increase exposure"
    ELSE IF f <= LowCut THEN "decrease exposure"
    ELSE "exposure is good"

\* C16: on every row the badge agrees with the engine's verdict on the same
\* factor: high with "increase exposure", low with "decrease exposure", good
\* with "exposure is good".
C16_BadgeAgreesWithEngine ==
    \A i \in 1..MaxReports :
        Rated(i) =>
            LET verdict == EngineVerdict(page[i].factor)
                band == table[i].band
            IN /\ band = "high" <=> verdict = "increase exposure"
               /\ band = "low" <=> verdict = "decrease exposure"
               /\ band = "good" <=> verdict = "exposure is good"

\* A float field of the report of row i is null or absent.
Absent(i, block, x) == ~page[i].has \/ ~block \/ Missing(x)

\* C17: on every row a null or absent float is shown as N/A and no badge is
\* derived from it, and a present float, 0 included, is shown as its value.
C17_AbsentIsNotComputable ==
    \A i \in 1..MaxReports :
        i \in DOMAIN table =>
            LET r == page[i]
                row == table[i]
            IN /\ row.exposure =
                     IF Absent(i, TRUE, r.cur)
                     THEN <<"na", 0>> ELSE <<"value", r.cur>>
               /\ row.sky =
                     IF Absent(i, r.sky, r.mag)
                     THEN <<"na", 0>> ELSE <<"value", r.mag>>
               /\ row.snr =
                     IF Absent(i, r.snr, r.bkg)
                     THEN <<"na", 0>> ELSE <<"value", r.bkg>>
               /\ Absent(i, TRUE, r.factor) => row.band \notin {"good", "high", "low"}

\* C18: loading the analyses gives every report of the page its row, and
\* asking for the details of a report of the page shows them, whatever
\* block or float of a report is null or absent.
C18_NullsRenderWithoutFault ==
    [][/\ LoadAnalyses("ok") => Len(table') = Len(page)
       /\ \A i \in 1..MaxReports :
             (i <= Len(page) /\ ViewAnalysisDetails(i, "ok")) =>
                 (modalOpen' /\ modalBody' = <<page[i]>>)]_vars

\* A request of the dashboard that fails.
FailedRequest ==
    \E o \in {"http", "network"} :
        \/ LoadAnalyses(o)
        \/ \E i \in 0..MaxReports : ViewAnalysisDetails(i, o)
        \/ LoadWatcherStatus(o)
        \/ LoadRigSummary(o)
        \/ \E api \in {"start", "stop"} : WatcherCommand(api, o)
        \/ \E api \in {"recommendations", "stats", "process_existing"} :
              AuxRequest(api, o)

\* C19: a failed request leaves a toast or error banner on the screen.
C19_FailuresAreShown ==
    [][FailedRequest => toast' # "none"]_vars

\* C20: when the details of a filename the server does not know are asked
\* for (404), an error is shown and the modal is neither opened nor changed.
C20_UnknownFileLeavesModal ==
    [][ViewAnalysisDetails(0, "http") =>
          /\ toast' = "error"
          /\ UNCHANGED <<modalOpen, modalBody>>]_vars

\* The modal showed the details of a report, was closed, and a request for
\* an unknown file was answered 404: the error is up, the modal is closed
\* and still holds the earlier details.
C20_Witness ==
    /\ lastCall = <<"unknown", "http">>
    /\ toast = "error"
    /\ ~modalOpen
    /\ modalBody # <<>>

\* The endpoints of the JSON contract.
Contract ==
    {"/api/analyses", "/api/analysis/{filename}", "/api/watcher/status",
     "/api/watcher/start", "/api/watcher/stop"}

\* C24: every request the dashboard issues goes to an endpoint of the
\* contract.
C24_OnlyContractEndpoints ==
    lastCall[1] # "none" => Endpoint(script, lastCall[1]) \in Contract

\* ================================================================== paging
MaxPages == 3       \* pages of analyses the server holds
MaxInFlight == 2    \* loadAnalyses requests in flight at once

Larger(a, b) == IF a > b THEN a ELSE b
Smaller(a, b) == IF a < b THEN a ELSE b

\* updatePagination: the control rendered from currentPage and data.pages;
\* the guarded scripts leave it empty when there is one page.
Render(s, cp, total) ==
    IF Guarded(s) /\ total <= 1 THEN <<>> ELSE <<[at |-> cp, pages |-> total]>>

\* The pages the links of the control ask for: Previous, the page numbers
\* and Next.
Targets(s, pg) ==
    {pg.at - 1, pg.at + 1}
    \cup (IF Guarded(s)
          THEN Larger(1, pg.at - 2) .. Smaller(pg.pages, pg.at + 2)
          ELSE 1 .. pg.pages)

\* Previous on the first page and Next on the last page get the class
\* "disabled"; their onclick is rendered all the same.
Disabled(s, pg) ==
    (IF pg.at = 1 THEN {pg.at - 1} ELSE {})
    \cup (IF pg.at = pg.pages THEN {pg.at + 1} ELSE {})

\* loadAnalyses(page) up to the fetch: currentPage is set and the request
\* leaves.  A request remembers the page it asks for and currentPage at the
\* time of the call.
Requested(p) ==
    /\ p \in 0 .. MaxPages + 1
    /\ LET r == [page |-> p, from |-> currentPage]
       IN /\ r \in pending \/ Cardinality(pending) < MaxInFlight
          /\ pending' = pending \cup {r}
    /\ currentPage' = p
    /\ burstOk' = IF pending = {} THEN TRUE ELSE burstOk
    /\ UNCHANGED <<shown, pager>>
    /\ UNCHANGED <<backendVars, viewVars, dashVars, engineVars, timerVars>>

\* A click on a link of the pagination control.
ClickLink(p) ==
    /\ pager # <<>>
    /\ p \in Targets(script, pager[1]) \ Disabled(script, pager[1])
    /\ Requested(p)

\* A disabled Previous or Next is activated (the class is styling only: the
\* link keeps its href and its onclick, and takes the keyboard).
ClickDisabled(p) ==
    /\ pager # <<>>
    /\ p \in Disabled(script, pager[1])
    /\ Requested(p)

\* refreshNow / refreshDashboard / refreshAnalyses, the auto-refresh timer,
\* the status response of part_000: loadAnalyses(currentPage).
RefreshNow == Requested(currentPage)

\* DOMContentLoaded, the reload after startWatcher or processExisting:
\* loadAnalyses() / loadAnalyses(1).
FirstPage == Requested(1)

\* The answer to a request arrives: the .then / .catch of loadAnalyses.
Answered(r, o) ==
    /\ r \in pending
    /\ pending' = pending \ {r}
    /\ currentPage' = currentPage
    /\ burstOk' = (burstOk /\ o = "ok")
    /\ IF o = "ok"
       THEN /\ shown' = r.page
            /\ pager' = Render(script, currentPage, MaxPages)
       ELSE IF o = "http" /\ ~ChecksStatus(script, "analyses")
       THEN \* updateAnalysesTable(undefined) empties the table and throws
            /\ shown' = 0
            /\ pager' = pager
       ELSE UNCHANGED <<shown, pager>>
    /\ UNCHANGED <<backendVars, viewVars, dashVars, engineVars, timerVars>>

PageInit ==
    /\ WatcherInit
    /\ script \in Scripts
    /\ page = <<>>
    /\ DashboardBlank
    /\ EngineBlank
    /\ PagingBlank
    /\ ViewBlank
    /\ TimersBlank

PageNext ==
    \/ \E p \in 0 .. MaxPages + 1 : ClickLink(p)
    \/ \E p \in 0 .. MaxPages + 1 : ClickDisabled(p)
    \/ RefreshNow
    \/ FirstPage
    \/ \E r \in pending, o \in Outcomes : Answered(r, o)

PageSpec == PageInit /\ [][PageNext]_vars

\* ------------------------------------------------------------ paging claims
\* C25: once every loadAnalyses request in flight has been answered, none of
\* them with a failure, the rows and the pagination control are those of
\* currentPage.
C25_LastRequestedPageShown ==
    (pending = {} /\ burstOk /\ shown # 0) =>
        /\ shown = currentPage
        /\ pager = Render(script, currentPage, MaxPages)

\* C26: currentPage stays within 1..pages.
C26_CurrentPageInRange ==
    currentPage \in 1 .. MaxPages

\* C27: when the only request in flight fails, currentPage and the table
\* are as they were before the call.
C27_FailureLeavesPagingState ==
    [][\A r \in pending :
          (/\ pending = {r}
           /\ shown = r.from
           /\ \E o \in {"http", "network"} : Answered(r, o))
          => (currentPage' = r.from /\ shown' = r.from)]_vars

\* ============================================================ auto-refresh
\* The rates of the refresh-rate selector, in seconds; 0 is "Off".
Rates == {0, 5, 10}

\* The timers of the page: the two variables that hold a timer id, and the
\* timers that are running.
Timers ==
    [handle |-> autoRefreshInterval, chandle |-> countdownInterval,
     refresh |-> refreshTimers, countdown |-> countdownTimers,
     value |-> countdownValue]

SetTimers(t) ==
    /\ autoRefreshInterval' = t.handle
    /\ countdownInterval' = t.chandle
    /\ refreshTimers' = t.refresh
    /\ countdownTimers' = t.countdown
    /\ countdownValue' = t.value

\* if (autoRefreshInterval) { clearInterval(autoRefreshInterval); ... }
ClearRefresh(t) ==
    IF t.handle
    THEN [t EXCEPT !.handle = FALSE, !.refresh = t.refresh - 1]
    ELSE t

\* if (countdownInterval) { clearInterval(countdownInterval); ... }
ClearCountdown(t) ==
    IF t.chandle
    THEN [t EXCEPT !.chandle = FALSE, !.countdown = t.countdown - 1]
    ELSE t

\* stopAutoRefresh: dashboard.js clears both timers, part_000 the refresh
\* timer; part_001 clears the refresh timer in the checkbox handler.
StopAutoRefresh(s, t) ==
    IF s = "dashboard.js" THEN ClearCountdown(ClearRefresh(t))
    ELSE ClearRefresh(t)

\* startCountdown (dashboard.js): countdownValue = refreshInterval / 1000
StartCountdown(t, rate) ==
    LET c == ClearCountdown(t)
    IN [c EXCEPT !.chandle = TRUE, !.countdown = c.countdown + 1,
                 !.value = rate]

\* startAutoRefresh; in part_001 the setInterval of the checkbox handler,
\* which clears nothing.
StartAutoRefresh(s, t, rate) ==
    CASE s = "dashboard.js" ->
            LET c == StartCountdown(StopAutoRefresh(s, t), rate)
            IN IF rate > 0
               THEN [c EXCEPT !.handle = TRUE, !.refresh = c.refresh + 1]
               ELSE c
      [] s = "part_000" ->
            LET c == ClearRefresh(t)
            IN [c EXCEPT !.handle = TRUE, !.refresh = c.refresh + 1,
                         !.value = 10]
      [] s = "part_001" ->
            [t EXCEPT !.handle = TRUE, !.refresh = t.refresh + 1]

\* Variant: the checkbox alone decides.
ToggleStartsUnconditional(s, chk, run) == chk

\* The condition under which the change handler of the checkbox starts the
\* auto-refresh: part_000 asks for a running watcher as well.
ToggleStarts(s, chk, run) ==
    IF s = "part_000" THEN chk /\ run ELSE chk

\* Variant: the buttons are left as they were.
ControlsKept(run) ==
    [start |-> startDisabled, stop |-> stopDisabled,
     badge |-> IF run THEN "Running" ELSE "Stopped"]

\* updateWatcherControls: the buttons and the badge for a status.
Controls(run) ==
    [start |-> run, stop |-> ~run,
     badge |-> IF run THEN "Running" ELSE "Stopped"]

SetControls(c) ==
    /\ startDisabled' = c.start
    /\ stopDisabled' = c.stop
    /\ badge' = c.badge

\* loadWatcherStatus up to the fetch.
StatusRequested(asked) ==
    /\ statusPending' = (statusPending \/ asked)
    /\ UNCHANGED <<startDisabled, stopDisabled, badge>>

\* The auto-refresh checkbox / toggle changes.
ToggleAutoRefresh ==
    /\ checked' = ~checked
    /\ IF ToggleStarts(script, checked', watcherRunning)
       THEN /\ SetTimers(StartAutoRefresh(script, Timers, refreshInterval))
            /\ cause' = IF script = "dashboard.js" THEN "toggle" ELSE "none"
       ELSE /\ SetTimers(StopAutoRefresh(script, Timers))
            /\ cause' = "none"
    /\ StatusRequested(script = "dashboard.js" /\ checked')
    /\ UNCHANGED <<watcherRunning, refreshInterval, serverRunning>>
    /\ UNCHANGED <<backendVars, viewVars, dashVars, engineVars, pagingVars>>

\* dashboard.js: the refresh-rate selector changes.
ChangeRate(r) ==
    /\ script = "dashboard.js"
    /\ r \in Rates
    /\ refreshInterval' = r
    /\ IF checked
       THEN /\ SetTimers(StartAutoRefresh(script,
                             StopAutoRefresh(script, Timers), r))
            /\ cause' = "rate"
       ELSE /\ SetTimers(Timers)
            /\ cause' = "none"
    /\ StatusRequested(checked)
    /\ UNCHANGED <<checked, watcherRunning, serverRunning>>
    /\ UNCHANGED <<backendVars, viewVars, dashVars, engineVars, pagingVars>>

\* loadWatcherStatus is answered: watcher_running in the body.
StatusAnswered(run, o) ==
    /\ Guarded(script)
    /\ statusPending
    /\ statusPending' = FALSE
    /\ IF o # "ok"
       THEN /\ SetTimers(Timers)
            /\ UNCHANGED <<watcherRunning, startDisabled, stopDisabled, badge>>
            /\ cause' = "none"
       ELSE /\ watcherRunning' = run
            /\ SetControls(Controls(run))
            /\ IF script = "dashboard.js"
               THEN /\ SetTimers(Timers)
                    /\ cause' = "none"
               ELSE IF run
               THEN IF checked
                    THEN /\ SetTimers(IF ~autoRefreshInterval
                                      THEN StartAutoRefresh(script, Timers,
                                                            refreshInterval)
                                      ELSE Timers)
                         /\ cause' = "status"
                    ELSE /\ SetTimers(Timers)
                         /\ cause' = "none"
               ELSE /\ SetTimers(StopAutoRefresh(script, Timers))
                    /\ cause' = "none"
    /\ UNCHANGED <<checked, refreshInterval, serverRunning>>
    /\ UNCHANGED <<backendVars, viewVars, dashVars, engineVars, pagingVars>>

\* startWatcher is answered: loadWatcherStatus and, a second later, a reload.
StartAnswered(o) ==
    /\ Guarded(script)
    /\ cause' = IF Usable(script, "start", o) THEN "start" ELSE "none"
    /\ serverRunning' = (serverRunning \/ o = "ok")
    /\ StatusRequested(Usable(script, "start", o))
    /\ UNCHANGED <<checked, watcherRunning, refreshInterval,
                   autoRefreshInterval, countdownInterval, refreshTimers,
                   countdownTimers, countdownValue>>
    /\ UNCHANGED <<backendVars, viewVars, dashVars, engineVars, pagingVars>>

\* stopWatcher is answered: loadWatcherStatus and, in part_000,
\* stopAutoRefresh.
StopAnswered(o) ==
    /\ Guarded(script)
    /\ SetTimers(IF script = "part_000" /\ Usable(script, "stop", o)
                 THEN StopAutoRefresh(script, Timers)
                 ELSE Timers)
    /\ cause' = "none"
    /\ serverRunning' = (serverRunning /\ o # "ok")
    /\ StatusRequested(Usable(script, "stop", o))
    /\ UNCHANGED <<checked, watcherRunning, refreshInterval>>
    /\ UNCHANGED <<backendVars, viewVars, dashVars, engineVars, pagingVars>>

\* The periodic refresh timer fires; part_000 reloads only while
\* watcherRunning.
TimerFired ==
    /\ refreshTimers > 0
    /\ cause' = IF script = "part_000" /\ ~watcherRunning THEN "none" ELSE "timer"
    /\ StatusRequested(script = "dashboard.js")
    /\ UNCHANGED serverRunning
    /\ UNCHANGED <<checked, watcherRunning, refreshInterval,
                   autoRefreshInterval, countdownInterval, refreshTimers,
                   countdownTimers, countdownValue>>
    /\ UNCHANGED <<backendVars, viewVars, dashVars, engineVars, pagingVars>>

\* The countdown timer fires, once a second: dashboard.js counts down and
\* starts again from the rate, part_000 counts down to 0.
CountdownTick ==
    /\ countdownTimers > 0
    /\ countdownValue' =
          IF script = "dashboard.js"
          THEN (IF countdownValue - 1 <= 0 THEN refreshInterval
                ELSE countdownValue - 1)
          ELSE (IF countdownValue > 0 THEN countdownValue - 1
                ELSE countdownValue)
    /\ cause' = "none"
    /\ UNCHANGED statusVars
    /\ UNCHANGED <<checked, watcherRunning, refreshInterval,
                   autoRefreshInterval, countdownInterval, refreshTimers,
                   countdownTimers>>
    /\ UNCHANGED <<backendVars, viewVars, dashVars, engineVars, pagingVars>>

\* The refresh button.
ManualRefresh ==
    /\ cause' = "manual"
    /\ countdownValue' =
          IF script = "part_000" /\ watcherRunning /\ autoRefreshInterval
          THEN 10 ELSE countdownValue
    /\ StatusRequested(Guarded(script))
    /\ UNCHANGED serverRunning
    /\ UNCHANGED <<checked, watcherRunning, refreshInterval,
                   autoRefreshInterval, countdownInterval, refreshTimers,
                   countdownTimers>>
    /\ UNCHANGED <<backendVars, viewVars, dashVars, engineVars, pagingVars>>

\* part_000: the status polling timer fires, every three seconds.
PollStatus ==
    /\ script = "part_000"
    /\ StatusRequested(TRUE)
    /\ cause' = "none"
    /\ UNCHANGED <<checked, watcherRunning, refreshInterval,
                   autoRefreshInterval, countdownInterval, refreshTimers,
                   countdownTimers, countdownValue, serverRunning>>
    /\ UNCHANGED <<backendVars, viewVars, dashVars, engineVars, pagingVars>>

\* The watcher is started or stopped by someone else (the command line,
\* another page).
ServerChanged ==
    /\ serverRunning' = ~serverRunning
    /\ cause' = "none"
    /\ UNCHANGED <<statusPending, startDisabled, stopDisabled, badge>>
    /\ UNCHANGED <<checked, watcherRunning, refreshInterval,
                   autoRefreshInterval, countdownInterval, refreshTimers,
                   countdownTimers, countdownValue>>
    /\ UNCHANGED <<backendVars, viewVars, dashVars, engineVars, pagingVars>>

\* The page after DOMContentLoaded, the checkbox as the document has it:
\* dashboard.js and part_001 start the auto-refresh when it is checked,
\* part_000 does not (watcherRunning is false) and starts its one-second
\* countdown timer, which it never clears.
RefreshInit ==
    /\ WatcherInit
    /\ script \in Scripts
    /\ page = <<>>
    /\ DashboardBlank
    /\ EngineBlank
    /\ PagingBlank
    /\ ViewBlank
    /\ checked \in BOOLEAN
    /\ watcherRunning = FALSE
    /\ refreshInterval = 10
    /\ countdownValue = 10
    /\ cause = "none"
    /\ autoRefreshInterval = (checked /\ script # "part_000")
    /\ refreshTimers = IF checked /\ script # "part_000" THEN 1 ELSE 0
    /\ countdownInterval = (checked /\ script = "dashboard.js")
    /\ countdownTimers =
          IF script = "part_000" \/ (checked /\ script = "dashboard.js")
          THEN 1 ELSE 0
    /\ serverRunning \in BOOLEAN
    /\ statusPending = Guarded(script)
    /\ startDisabled = FALSE
    /\ stopDisabled = FALSE
    /\ badge = "unknown"

RefreshNext ==
    \/ ToggleAutoRefresh
    \/ \E r \in Rates : ChangeRate(r)
    \/ \E o \in Outcomes : StatusAnswered(serverRunning, o)
    \/ \E o \in Outcomes : StartAnswered(o)
    \/ \E o \in Outcomes : StopAnswered(o)
    \/ TimerFired
    \/ CountdownTick
    \/ ManualRefresh
    \/ PollStatus
    \/ ServerChanged

RefreshSpec == RefreshInit /\ [][RefreshNext]_vars

\* The same page while every status request succeeds.
StatusNext ==
    \/ ToggleAutoRefresh
    \/ \E r \in Rates : ChangeRate(r)
    \/ StatusAnswered(serverRunning, "ok")
    \/ \E o \in Outcomes : StartAnswered(o)
    \/ \E o \in Outcomes : StopAnswered(o)
    \/ TimerFired
    \/ CountdownTick
    \/ ManualRefresh
    \/ PollStatus
    \/ ServerChanged

\* The timers fire again and again and a request in flight is answered; the
\* user and the server are bound to nothing.
StatusSpec ==
    /\ RefreshInit
    /\ [][StatusNext]_vars
    /\ WF_vars(TimerFired)
    /\ WF_vars(PollStatus)
    /\ WF_vars(StatusAnswered(serverRunning, "ok"))

\* ------------------------------------------------------ auto-refresh claims
\* C28: in the status-polling dashboard (part_000) the periodic refresh
\* timer is active only while watcherRunning and the checkbox is checked.
C28_TimerOnlyWhileRunningAndChecked ==
    script = "part_000" =>
        ((autoRefreshInterval \/ refreshTimers > 0) =>
            (watcherRunning /\ checked))

\* The timer runs: the watcher is reported running and the box is checked.
C28_Witness ==
    /\ script = "part_000"
    /\ autoRefreshInterval
    /\ refreshTimers = 1
    /\ watcherRunning
    /\ checked

\* A step that ends with the auto-refresh stopped: the box is unchecked, or
\* part_000 gets the answer to stopWatcher.
StopsAutoRefresh ==
    \/ ToggleAutoRefresh /\ checked
    \/ script = "part_000" /\ StopAnswered("ok")

\* C29: at most one periodic refresh timer and at most one countdown timer
\* are active, and after the auto-refresh is stopped none is.
C29_AtMostOneTimer ==
    /\ [](refreshTimers <= 1 /\ countdownTimers <= 1)
    /\ [][StopsAutoRefresh =>
             (refreshTimers' = 0 /\ countdownTimers' = 0)]_vars

\* C30: in part_000 a status answer reloads the analyses only when the
\* watcher has just started running.
C30_ReloadOnlyOnStart ==
    [][(/\ script = "part_000"
        /\ \E run \in BOOLEAN, o \in Outcomes : StatusAnswered(run, o)
        /\ cause' = "status")
       => (~watcherRunning /\ watcherRunning')]_vars

\* C31: in dashboard.js, while the refresh rate is Off (refreshInterval = 0)
\* no periodic refresh timer and no countdown timer is active and the timer
\* reloads nothing, whatever the toggle says.
C31_OffMeansNoTimers ==
    (script = "dashboard.js" /\ refreshInterval = 0) =>
        /\ refreshTimers = 0
        /\ countdownTimers = 0
        /\ cause # "timer"

\* What the dashboard shows of the watcher agrees with the server.
ShowsServerState(b) ==
    /\ watcherRunning = b
    /\ badge = (IF b THEN "Running" ELSE "Stopped")

\* C32: when the server's watcher state stops changing, the state the
\* dashboard shows (dashboard.js, part_000) becomes the server's state and
\* stays so, whoever changed it and whether or not the auto-refresh runs.
C32_StatusEventuallyShown ==
    \A b \in BOOLEAN :
        <>[](serverRunning = b) => <>[](Guarded(script) => ShowsServerState(b))

\* C33: a successful status answer sets watcherRunning to watcher_running,
\* disables Start iff the watcher runs and Stop iff it does not; the answers
\* to Start and Stop leave watcherRunning alone.
C33_StatusSetsFlagAndButtons ==
    [][/\ \A run \in BOOLEAN :
             StatusAnswered(run, "ok") =>
                 /\ watcherRunning' = run
                 /\ startDisabled' = run
                 /\ stopDisabled' = ~run
       /\ (\E o \in Outcomes : StartAnswered(o) \/ StopAnswered(o)) =>
             watcherRunning' = watcherRunning]_vars

\* The watcher was reported stopped, then running: Start is disabled and
\* Stop is enabled.
C33_Witness ==
    /\ Guarded(script)
    /\ watcherRunning
    /\ badge = "Running"
    /\ startDisabled
    /\ ~stopDisabled
    /\ ~statusPending

\* ============================================================ filters, views
\* A text property that is missing reads as undefined, falsy like "".
NoText == ""
OrText(x, d) == IF x = NoText THEN d ELSE x

\* One analysis of GET /api/analyses, as far as the filters, the rows and the
\* rig summary read it: file_info.rig, file_info.camera, analysis.camera,
\* file_info.telescope, analysis.telescope, file_info.filter and
\* saturation_analysis.severity ("absent" without a saturation analysis).
Analysis(rig, camera, acamera, telescope, atelescope, filter, sev) ==
    [rig |-> rig, camera |-> camera, acamera |-> acamera,
     telescope |-> telescope, atelescope |-> atelescope, filter |-> filter,
     sev |-> sev]

Plain == Analysis("Rig1", "ZWO ASI2600MM", NoText, "Esprit 100ED", NoText, "Ha", "NONE")
NoRig == Analysis(NoText, "ZWO ASI2600MM", NoText, "Esprit 100ED", NoText, "Ha", "MODERATE")
HeaderOnly == Analysis(NoText, NoText, "QHY 268M", NoText, "Esprit 100ED", "OIII", "HIGH")
Bare == Analysis("Rig1", NoText, NoText, NoText, NoText, NoText, "CRITICAL")
Minor == Analysis("Rig1", "ZWO ASI2600MM", NoText, "Esprit 100ED", NoText, "Ha", "MINOR")
Unrated == Analysis("Rig1", "ZWO ASI2600MM", NoText, "Esprit 100ED", NoText, "OIII", "absent")

Analyses == {Plain, NoRig, HeaderOnly, Bare, Minor, Unrated}

\* The pages the server answers with.
Loads ==
    {<<>>} \cup {<<a>> : a \in Analyses}
    \cup {<<Plain, NoRig>>, <<NoRig, HeaderOnly>>, <<HeaderOnly, Bare>>,
          <<Minor, Unrated>>, <<Bare, Plain>>}

\* The values the filter buttons carry, and the views of the toggle buttons.
Choices ==
    [rig |-> {"all", "Rig1", "Unknown"},
     filterType |-> {"all", "Ha"},
     status |-> {"all", "Good", "Moderate", "Critical"}]
Views == {"compact", "detailed"}
StoredViews == {NoText, "compact", "detailed", "grid"}

\* s.split(" ")[0]
FirstWord(s) ==
    CASE s = "ZWO ASI2600MM" -> "ZWO"
      [] s = "QHY 268M" -> "QHY"
      [] s = "Esprit 100ED" -> "Esprit"
      [] OTHER -> s

\* The rig filterData compares with the rig filter.
RigOfFilter(a) == OrText(a.rig, "Unknown")

\* The rig createCompactRow and createDetailedRow show.
RigOfRow(a) ==
    LET telescope == OrText(a.telescope, OrText(a.atelescope, "Unknown"))
        camera == OrText(a.camera, OrText(a.acamera, "Unknown"))
    IN OrText(a.rig, FirstWord(camera) \o "/" \o FirstWord(telescope))

\* The rig updateRigSummary groups by.
RigOfSummary(a) ==
    LET telescope == OrText(a.telescope, "Unknown")
        camera == OrText(a.camera, "Unknown")
    IN OrText(a.rig, FirstWord(camera) \o "/" \o FirstWord(telescope))

\* filterData, createCompactRow, createDetailedRow: the status of a severity.
StatusOf(sev) ==
    IF sev = "CRITICAL" THEN "Critical"
    ELSE IF sev = "MODERATE" THEN "Moderate"
    ELSE "Good"

\* sat.severity && sat.severity !== 'NONE'
Saturated(sev) == sev # "absent" /\ sev # "NONE"

Passes(a, filters) ==
    /\ filters.rig = "all" \/ RigOfFilter(a) = filters.rig
    /\ filters.filterType = "all" \/ OrText(a.filter, "Unknown") = filters.filterType
    /\ filters.status = "all" \/ StatusOf(a.sev) = filters.status

FilterData(data, filters) == SelectSeq(data, LAMBDA a : Passes(a, filters))

\* A rendered row: the rig cell, the severity it was made of, the text of the
\* status badge and whether the row has the class saturation-warning.
CreateCompactRow(a) ==
    [rig |-> RigOfRow(a), sev |-> a.sev, badge |-> StatusOf(a.sev),
     warn |-> Saturated(a.sev)]

CreateDetailedRow(a) ==
    [rig |-> RigOfRow(a), sev |-> a.sev, badge |-> StatusOf(a.sev),
     warn |-> FALSE]

\* The row of the older scripts: no rig cell, the severity itself as badge.
TableRow(s, a) ==
    [rig |-> NoText, sev |-> a.sev,
     badge |-> IF (IF s = "part_000" THEN Saturated(a.sev) ELSE a.sev # "NONE")
               THEN a.sev ELSE "Good",
     warn |-> a.sev # "NONE"]

\* Rows built before part_001 reads severity of an absent saturation analysis.
RECURSIVE RowsBuilt(_, _, _)
RowsBuilt(s, data, i) ==
    IF i > Len(data) \/ (~Guarded(s) /\ data[i].sev = "absent")
    THEN i - 1
    ELSE RowsBuilt(s, data, i + 1)

UpdateAnalysesTable(s, data) ==
    [i \in 1..RowsBuilt(s, data, 1) |-> TableRow(s, data[i])]

RenderTarget(view) == IF view = "compact" THEN "compact" ELSE "detailed"

RenderCurrentView(data, filters, view) ==
    LET filteredData == FilterData(data, filters)
    IN [i \in 1..Len(filteredData) |->
           IF view = "compact" THEN CreateCompactRow(filteredData[i])
           ELSE CreateDetailedRow(filteredData[i])]

\* updateRigSummary: one row per rig, with the number of its analyses.
UpdateRigSummary(data) ==
    {<<g, Cardinality({i \in DOMAIN data : RigOfSummary(data[i]) = g})>> :
        g \in {RigOfSummary(data[i]) : i \in DOMAIN data}}

\* loadAnalyses is answered.
AnalysesLoaded(pg, o) ==
    /\ IF script = "dashboard.js"
       THEN IF o = "ok"
            THEN /\ allAnalysesData' = pg
                 /\ rows' = RenderCurrentView(pg, currentFilters, currentView)
                 /\ renderedInto' = RenderTarget(currentView)
                 /\ displayedCount' = Len(pg)
            ELSE UNCHANGED <<allAnalysesData, rows, renderedInto, displayedCount>>
       ELSE /\ rows' = IF o = "ok" THEN UpdateAnalysesTable(script, pg)
                       ELSE IF o = "http" /\ ~ChecksStatus(script, "analyses")
                       THEN <<>>
                       ELSE rows
            /\ UNCHANGED <<allAnalysesData, renderedInto, displayedCount>>
    /\ UNCHANGED <<currentFilters, currentView, preferredView, compactHidden,
                   detailedHidden, summaryData, rigSummary>>
    /\ UNCHANGED <<backendVars, dashVars, engineVars, pagingVars, timerVars>>

\* A filter button is clicked: applyFilters.
ApplyFilters(kind, v) ==
    /\ script = "dashboard.js"
    /\ currentFilters' = [currentFilters EXCEPT ![kind] = v]
    /\ displayedCount' = Len(FilterData(allAnalysesData, currentFilters'))
    /\ rows' = RenderCurrentView(allAnalysesData, currentFilters', currentView)
    /\ renderedInto' = RenderTarget(currentView)
    /\ UNCHANGED <<allAnalysesData, currentView, preferredView, compactHidden,
                   detailedHidden, summaryData, rigSummary>>
    /\ UNCHANGED <<backendVars, dashVars, engineVars, pagingVars, timerVars>>

\* The click handler of a view toggle button.
ViewClicked(viewType) ==
    [view |-> viewType, stored |-> viewType,
     chide |-> viewType # "compact", dhide |-> viewType = "compact",
     into |-> RenderTarget(viewType)]

\* setupViewToggle without a button for the preferred view: nothing is set.
ViewLeft(stored, visible) ==
    [view |-> OrText(stored, "compact"), stored |-> stored,
     chide |-> visible # "compact", dhide |-> visible # "detailed",
     into |-> "none"]

SetView(w) ==
    /\ currentView' = w.view
    /\ preferredView' = w.stored
    /\ compactHidden' = w.chide
    /\ detailedHidden' = w.dhide
    /\ renderedInto' = w.into

ClickView(viewType) ==
    /\ script = "dashboard.js"
    /\ SetView(ViewClicked(viewType))
    /\ rows' = RenderCurrentView(allAnalysesData, currentFilters, viewType)
    /\ UNCHANGED <<allAnalysesData, currentFilters, displayedCount,
                   summaryData, rigSummary>>
    /\ UNCHANGED <<backendVars, dashVars, engineVars, pagingVars, timerVars>>

\* loadRigSummary is answered; it reads the body whatever the status.
RigSummaryLoaded(pg, o) ==
    /\ script = "dashboard.js"
    /\ IF o = "fail"
       THEN UNCHANGED <<summaryData, rigSummary>>
       ELSE LET analyses == IF o = "ok" THEN pg ELSE <<>>
            IN /\ summaryData' = analyses
               /\ rigSummary' = UpdateRigSummary(analyses)
    /\ UNCHANGED <<allAnalysesData, currentFilters, displayedCount, rows,
                   renderedInto, currentView, preferredView, compactHidden,
                   detailedHidden>>
    /\ UNCHANGED <<backendVars, dashVars, engineVars, pagingVars, timerVars>>

\* The page after DOMContentLoaded: currentView read from localStorage,
\* setupViewToggle run, nothing answered yet. Which table the document
\* shows before any click is the document's choice.
ViewInit ==
    /\ WatcherInit
    /\ script \in Scripts
    /\ page = <<>>
    /\ DashboardBlank
    /\ EngineBlank
    /\ PagingBlank
    /\ TimersBlank
    /\ allAnalysesData = <<>>
    /\ currentFilters = NoFilters
    /\ displayedCount = 0
    /\ rows = <<>>
    /\ summaryData = <<>>
    /\ rigSummary = {}
    /\ IF script = "dashboard.js"
       THEN \E stored \in StoredViews, visible \in Views :
               LET w == IF OrText(stored, "compact") \in Views
                        THEN ViewClicked(OrText(stored, "compact"))
                        ELSE ViewLeft(stored, visible)
               IN /\ currentView = w.view
                  /\ preferredView = w.stored
                  /\ compactHidden = w.chide
                  /\ detailedHidden = w.dhide
                  /\ renderedInto = w.into
       ELSE /\ currentView = "compact"
            /\ preferredView = NoText
            /\ compactHidden = FALSE
            /\ detailedHidden = TRUE
            /\ renderedInto = "none"

ViewNext ==
    \/ \E pg \in Loads, o \in Outcomes : AnalysesLoaded(pg, o)
    \/ \E kind \in DOMAIN Choices : \E v \in Choices[kind] : ApplyFilters(kind, v)
    \/ \E viewType \in Views : ClickView(viewType)
    \/ \E pg \in Loads, o \in Outcomes : RigSummaryLoaded(pg, o)

ViewSpec == ViewInit /\ [][ViewNext]_vars

\* ----------------------------------------------------- filter, view claims
\* C34: in dashboard.js the displayed-files count equals the number of rows
\* rendered, which are the loaded analyses that pass the three filters.
C34_CountIsRowsShown ==
    script = "dashboard.js" =>
        /\ displayedCount = Len(rows)
        /\ Len(rows) = Len(FilterData(allAnalysesData, currentFilters))

\* C35: the rig the rig filter matches is the rig the row shows and the rig
\* the rig summary counts.
C35_OneRigEverywhere ==
    script = "dashboard.js" =>
        \A i \in DOMAIN rows :
            /\ currentFilters.rig # "all" => rows[i].rig = currentFilters.rig
            /\ summaryData = allAnalysesData =>
                   \E e \in rigSummary : e[1] = rows[i].rig

SeverityRank(sev) ==
    CASE sev = "NONE" -> 0
      [] sev = "MINOR" -> 1
      [] sev = "MODERATE" -> 2
      [] sev = "HIGH" -> 3
      [] sev = "CRITICAL" -> 4

StatusRank(status) ==
    CASE status = "Good" -> 0
      [] status = "Moderate" -> 1
      [] status = "Critical" -> 2

\* C36: of two rows of dashboard.js with a severity, the one with the higher
\* severity has no milder status.
C36_StatusMonotone ==
    script = "dashboard.js" =>
        \A i, j \in DOMAIN rows :
            (/\ rows[i].sev # "absent"
             /\ rows[j].sev # "absent"
             /\ SeverityRank(rows[i].sev) <= SeverityRank(rows[j].sev))
            => StatusRank(rows[i].badge) <= StatusRank(rows[j].badge)

\* C37: a row is highlighted as a saturation warning exactly when its badge
\* shows something other than Good; with severity NONE or without a
\* saturation analysis it is neither highlighted nor badged.
C37_HighlightIffBadged ==
    \A i \in DOMAIN rows :
        /\ rows[i].warn <=> rows[i].badge # "Good"
        /\ rows[i].sev \in {"NONE", "absent"} =>
               ~rows[i].warn /\ rows[i].badge = "Good"

\* C38: in dashboard.js exactly one of the two tables is visible, it is the
\* table renderCurrentView renders into for currentView, and localStorage
\* holds currentView.
C38_OneTableShown ==
    script = "dashboard.js" =>
        /\ compactHidden # detailedHidden
        /\ compactHidden <=> RenderTarget(currentView) # "compact"
        /\ renderedInto # "none" => renderedInto = RenderTarget(currentView)
        /\ preferredView = currentView

\* ==================================================== recommendation engine
\* The engine is a pure function of the analyzed frame.  Exposures are in
\* seconds, the SHO exposure in tenths of a second.
ShoTenths == 6      \* "SII/OIII at 0.6x Ha"

Filters == {"Ha", "SII", "OIII", "L"}
Severities == {"NONE", "MINOR", "HIGH"}

\* Analyzed frames: the filter of the frame, its exposure, the recommended
\* exposure on the H-alpha baseline, the saturation severity and the noise
\* regime.
Frames ==
    [filter : Filters, cur : {60, 300, 600}, rec : {100, 300, 455},
     sev : Severities, readNoise : BOOLEAN]

\* Variant: the 0.6 ratio is applied to H-alpha frames only.
ShoOfOwnFilter(f) == IF f.filter = "Ha" THEN ShoTenths * f.rec ELSE 10 * f.rec

\* sho_recommendation.recommended_exposure
ShoExposure(f) == ShoTenths * f.rec

Note(kind, text) == [kind |-> kind, text |-> text]

\* The recommendation list, in the order of the generated summary:
\*   No significant saturation detected / Exposure time is good: 300.0s /
\*   For SII/OIII: 180s (0.6x Ha) / Optimal sub length: 60s /
\*   Sky-noise limited. Good exposure.
Recommendations(f) ==
    << Note("saturation",
            IF f.sev = "NONE" THEN "No significant saturation detected"
            ELSE "Saturation warning"),
       Note("verdict", EngineVerdict(EngineFactor(f.cur, f.rec))),
       Note("sho", "For SII/OIII"),
       Note("sublength", "Optimal sub length"),
       Note("noise",
            IF f.readNoise THEN "Read-noise limited" ELSE "Sky-noise limited") >>

\* generate_report: the engine's part of the Report of a frame.
GenerateReport ==
    /\ frame # <<>>
    /\ report = <<>>
    /\ report' = <<[recommendations |-> Recommendations(frame[1]),
                    sho |-> ShoExposure(frame[1])]>>
    /\ UNCHANGED frame
    /\ UNCHANGED <<backendVars, viewVars, dashVars, pagingVars, timerVars>>

\* The analyzer hands the next frame to the engine.
NextFrame(f) ==
    /\ frame' = <<f>>
    /\ report' = <<>>
    /\ UNCHANGED <<backendVars, viewVars, dashVars, pagingVars, timerVars>>

EngineNext ==
    \/ GenerateReport
    \/ \E f \in Frames : NextFrame(f)

EngineSpec == Init /\ [][EngineNext]_vars

\* ------------------------------------------------------------ engine claims
\* Place of a kind of note in the order the specification gives.
StatedRank(kind) ==
    CASE kind = "saturation" -> 1
      [] kind = "verdict" -> 2
      [] kind = "sho" -> 3
      [] kind = "noise" -> 4
      [] kind = "sublength" -> 5

\* C21: the recommendation list of a Report is in the order saturation,
\* exposure verdict, SHO note, noise-regime note, optimal-sub-length note.
C21_RecommendationOrder ==
    report # <<>> =>
        LET list == report[1].recommendations
        IN \A i, j \in DOMAIN list :
              i < j => StatedRank(list[i].kind) < StatedRank(list[j].kind)

\* C22: the SHO exposure of every Report is exactly 0.6 times the H-alpha
\* baseline recommended exposure, whatever the filter of the frame.
C22_ShoIsSixTenths ==
    report # <<>> => 10 * report[1].sho = 6 * (10 * frame[1].rec)

\* An OIII frame with a 300 s H-alpha baseline gets 180 s.
C22_Witness ==
    /\ report # <<>>
    /\ frame[1].filter = "OIII"
    /\ frame[1].rec = 300
    /\ report[1].sho = 1800

====
